---- MODULE Spec2Model ----
(***************************************************************************)
(* Port allocator and launcher core of browser_manager                     *)
(* (neko_browser_launcher.py): the shared state file, the two locks, the   *)
(* allocate / release critical sections, and launch / cleanup around them. *)
(* The container runtime, the port probes and the readiness endpoint are   *)
(* the environment: every answer they can give is a nondeterministic       *)
(* choice.                                                                  *)
(***************************************************************************)
EXTENDS Integers, Sequences, FiniteSets, TLC

(* ------------------------------------------------------------------ *)
(* Program constants                                                   *)
(* ------------------------------------------------------------------ *)
WEBRTC_RANGE_SIZE == 101
DefaultServerPort == 8081
DefaultDebugPort == 9224
DefaultWebrtcPort == 52000
MaxPortNo == 65535
max_retries == 3
ConfigServerPort == 8080
ConfigDebugPort == 9223
ConfigWebrtcStart == 52000

(* ------------------------------------------------------------------ *)
(* Bounds of the model                                                 *)
(* ------------------------------------------------------------------ *)
\* the number of direct allocate / release calls made in one behaviour of
\* Spec, and of launch / cleanup calls in one behaviour of SpecLaunch
MaxCalls == 3
MaxLaunchCalls == 2

(* ------------------------------------------------------------------ *)
(* Names, threads                                                      *)
(* ------------------------------------------------------------------ *)
\* a container name is a sequence of characters
NameA == <<"a">>
NameB == <<"b">>
NameBad == <<";">>
NameNl == <<"a", "\n">>
Names == {NameA, NameB, NameBad, NameNl}
Threads == {"t1", "t2"}
NoThread == "none"

\* the names each thread gives to launch: the two launchers use the same
\* name (a, a) or different names (a, b), and one of them may pass a bad one
LaunchNames(p) == IF p = "t1" THEN {NameA, NameBad} ELSE {NameA, NameB}

Lower == {"a","b","c","d","e","f","g","h","i","j","k","l","m",
          "n","o","p","q","r","s","t","u","v","w","x","y","z"}
Upper == {"A","B","C","D","E","F","G","H","I","J","K","L","M",
          "N","O","P","Q","R","S","T","U","V","W","X","Y","Z"}
Digit == {"0","1","2","3","4","5","6","7","8","9"}
Alnum == Lower \cup Upper \cup Digit
NameChar == Alnum \cup {"_", ".", "-"}

\* the strings the pattern [a-zA-Z0-9][a-zA-Z0-9_.-]* denotes
FullMatch(n) ==
    /\ Len(n) >= 1
    /\ n[1] \in Alnum
    /\ \A i \in 2..Len(n) : n[i] \in NameChar

\* re.match(r'^[a-zA-Z0-9][a-zA-Z0-9_.\-]*$', name): without re.MULTILINE
\* the anchor $ matches at the end of the string and also just before a
\* newline that ends the string
validate_docker_name(n) ==
    \/ FullMatch(n)
    \/ /\ Len(n) >= 2
       /\ n[Len(n)] = "\n"
       /\ FullMatch(SubSeq(n, 1, Len(n) - 1))

(* ------------------------------------------------------------------ *)
(* State document                                                      *)
(* ------------------------------------------------------------------ *)
NoAllocations == [n \in {} |-> 0]

DEFAULT_STATE ==
    [next_server_port |-> DefaultServerPort,
     next_debug_port  |-> DefaultDebugPort,
     next_webrtc_port |-> DefaultWebrtcPort,
     allocations      |-> NoAllocations]

\* the temporary file beside the state file (_PORT_STATE_FILE + ".tmp"):
\* part tells how much of doc's JSON text is in the file
NoTmp == [exists |-> FALSE, doc |-> DEFAULT_STATE, part |-> "whole"]

\* the state file: missing, or the document last written; FileOf(s) is the
\* disk after a whole _write_state(s)
NoFile == [exists |-> FALSE, doc |-> DEFAULT_STATE, part |-> "whole", tmp |-> NoTmp]
FileOf(s) == [exists |-> TRUE, doc |-> s, part |-> "whole", tmp |-> NoTmp]

\* json.load accepted the text but the document is not an object (a list,
\* a number, null): state.setdefault raises AttributeError, which the
\* `except json.JSONDecodeError` clause does not catch
read_state_raises(f) == f.exists /\ f.part = "nonobject"

\* a _read_state that keeps the four keys it knows and no other
read_state_known_keys(f) ==
    IF f.exists /\ f.part = "whole"
    THEN [k \in DOMAIN DEFAULT_STATE |->
             IF k \in DOMAIN f.doc THEN f.doc[k] ELSE DEFAULT_STATE[k]]
    ELSE DEFAULT_STATE

\* a missing file and a text json.load rejects both give the default state;
\* an object is returned as it is, after setdefault("allocations", {})
read_state(f) ==
    IF f.exists /\ f.part = "whole"
    THEN IF "allocations" \in DOMAIN f.doc
         THEN f.doc
         ELSE [k \in (DOMAIN f.doc) \cup {"allocations"} |->
                  IF k = "allocations" THEN NoAllocations ELSE f.doc[k]]
    ELSE DEFAULT_STATE

\* a _read_state that returns _DEFAULT_STATE itself where it returns the
\* default state
read_state_shares_default(f) == ~(f.exists /\ f.part = "whole")

\* whether the dict _read_state returns is the module-level object: never,
\* both default returns are json.loads(json.dumps(_DEFAULT_STATE)), a new
\* object, and json.load makes a new object too
read_state_shares(f) == FALSE

\* the module-level dict after statements that changed the dict `state` of
\* a call in place (del, item assignment): changed with it when the two
\* are one object
default_after(d, shared, mem) == IF shared THEN mem ELSE d

\* writing the document over the state file itself
write_state_step_in_place(f, doc, k) ==
    CASE k = 1 -> [f EXCEPT !.exists = TRUE, !.doc = doc, !.part = "empty"]
      [] k = 2 -> [f EXCEPT !.part = "partial"]
      [] k = 3 -> [f EXCEPT !.part = "whole"]
      [] OTHER -> f

\* the disk after step k of _write_state(doc): 1 open(tmp, "w") truncates,
\* 2 json.dump has written a part of the text, 3 all of it and the file is
\* closed, 4 os.replace(tmp, _PORT_STATE_FILE)
write_state_step(f, doc, k) ==
    CASE k = 1 -> [f EXCEPT !.tmp = [exists |-> TRUE, doc |-> doc, part |-> "empty"]]
      [] k = 2 -> [f EXCEPT !.tmp.part = "partial"]
      [] k = 3 -> [f EXCEPT !.tmp.part = "whole"]
      [] OTHER -> [exists |-> TRUE, doc |-> f.tmp.doc, part |-> f.tmp.part,
                   tmp |-> NoTmp]

Triple(s, d, w) ==
    [server_port |-> s, debug_port |-> d, webrtc_port_start |-> w]

Without(a, k) == [n \in (DOMAIN a) \ {k} |-> a[n]]
With(a, k, v) == [n \in (DOMAIN a) \cup {k} |-> IF n = k THEN v ELSE a[n]]

\* the three cursor keys of the document
CursorKeys == {"next_server_port", "next_debug_port", "next_webrtc_port"}

\* state[k] = v for each cursor key: a key the document lacks is added, every
\* other key is kept
SetCursors(state, s, d, w) ==
    [k \in (DOMAIN state) \cup CursorKeys |->
        CASE k = "next_server_port" -> s
          [] k = "next_debug_port"  -> d
          [] k = "next_webrtc_port" -> w
          [] OTHER -> state[k]]

maybe_reset_cursors_never(state) == state

maybe_reset_cursors_always(state) ==
    SetCursors(state, DefaultServerPort, DefaultDebugPort, DefaultWebrtcPort)

maybe_reset_cursors(state) ==
    IF DOMAIN state.allocations = {}
    THEN SetCursors(state, DefaultServerPort, DefaultDebugPort,
                    DefaultWebrtcPort)
    ELSE state

\* running: what _running_docker_names returned. known = FALSE is None
\* (subprocess.run raised); reached tells whether the daemon answered the
\* listing, which the program does not look at
RunningNone == [known |-> FALSE, names |-> {}, reached |-> FALSE]
RunningSet(S) == [known |-> TRUE, names |-> S, reached |-> TRUE]
\* the daemon is down: the CLI exits non-zero with empty stdout, run() has
\* no check=True and does not raise, so the result is set()
RunningDown == [known |-> TRUE, names |-> {}, reached |-> FALSE]

\* a purge that never removes a record
purge_dead_allocations_skip(state, running) == state

purge_dead_allocations(state, running) ==
    IF ~running.known
    THEN state
    ELSE [state EXCEPT !.allocations =
            [n \in {m \in DOMAIN state.allocations : m \in running.names}
                |-> state.allocations[n]]]

release_ports_unlocked(docker_name, state) ==
    IF docker_name \in DOMAIN state.allocations
    THEN [state EXCEPT !.allocations = Without(state.allocations, docker_name)]
    ELSE state

(* ------------------------------------------------------------------ *)
(* Port probes and searches                                            *)
(* ------------------------------------------------------------------ *)
\* busy: the set of ports a bind() is refused on at this moment
is_tcp_port_free(port, busy) == port \notin busy

is_udp_range_free(start, size, busy) ==
    \A q \in busy : ~(start <= q /\ q < start + size)

\* not a port: the search raised RuntimeError
PortError == 0 - 1
\* not a port: bind() was given a number above 65535 and raised
\* OverflowError, which _is_tcp_port_free (except OSError) does not catch
ProbeError == 0 - 2

\* a search that looks at the probe alone: it starts at the lowest default
\* whatever the cursor says and skips no port the records hold
find_free_tcp_port_probe_only(port, used, busy) ==
    CHOOSE q \in DefaultServerPort..MaxPortNo :
        /\ is_tcp_port_free(q, busy)
        /\ \A r \in DefaultServerPort..(q - 1) : ~is_tcp_port_free(r, busy)

\* `while port in used or not _is_tcp_port_free(port)`: the probe is called
\* on every candidate not in used, the start included, and the bound is
\* checked only after an increment
RECURSIVE find_free_tcp_port(_, _, _)
find_free_tcp_port(port, used, busy) ==
    IF port \notin used /\ port > MaxPortNo
    THEN ProbeError
    ELSE IF port \in used \/ ~is_tcp_port_free(port, busy)
         THEN IF port + 1 > MaxPortNo
              THEN PortError
              ELSE find_free_tcp_port(port + 1, used, busy)
         ELSE port

RangesOverlap(a, b, size) == a < b + size /\ a + size > b

\* the same for the WebRTC range: the first default-aligned range the probe
\* accepts, whatever the cursor and the records say
find_free_webrtc_range_probe_only(port, used_starts, size, busy) ==
    IF is_udp_range_free(DefaultWebrtcPort, size, busy)
    THEN DefaultWebrtcPort
    ELSE DefaultWebrtcPort + size

RECURSIVE find_free_webrtc_range(_, _, _, _)
find_free_webrtc_range(port, used_starts, size, busy) ==
    IF port + size > MaxPortNo
    THEN PortError
    ELSE IF /\ ~(\E u \in used_starts : RangesOverlap(port, u, size))
            /\ is_udp_range_free(port, size, busy)
         THEN port
         ELSE find_free_webrtc_range(port + size, used_starts, size, busy)

(* ------------------------------------------------------------------ *)
(* The allocate critical section as a function of what it read         *)
(* ------------------------------------------------------------------ *)
NoBusy == [tcp |-> {}, udp |-> {}]
NoPorts == Triple(0, 0, 0)

\* an allocate that hands out the cursors as they are and leaves them there
allocate_ports_compute_no_advance(docker_name, state0, running, busy) ==
    LET s2 == maybe_reset_cursors(purge_dead_allocations(state0, running))
        ports == Triple(s2.next_server_port, s2.next_debug_port,
                        s2.next_webrtc_port)
    IN  [ok |-> TRUE,
         state |-> [s2 EXCEPT !.allocations =
                                 With(s2.allocations, docker_name, ports)],
         ports |-> ports, exc |-> "none"]

\* state0: the document read; running: the runtime's answer; busy: the probes'
\* answers. ok = FALSE when a statement raised exc (nothing is written then):
\* KeyError when a cursor key is read that the document lacks, RuntimeError
\* or OverflowError from the searches, the first to fail in program order.
allocate_ports_compute(docker_name, state0, running, busy) ==
    LET s1 == purge_dead_allocations(state0, running)
        s2 == maybe_reset_cursors(s1)
        s3 == IF docker_name \in DOMAIN s2.allocations
              THEN release_ports_unlocked(docker_name, s2)
              ELSE s2
        Failed(exc) == [ok |-> FALSE, state |-> state0, ports |-> NoPorts,
                        exc |-> exc]
        ErrorOf(q) == IF q = ProbeError THEN "OverflowError" ELSE "RuntimeError"
    IN  IF ~(CursorKeys \subseteq DOMAIN s3)
        THEN Failed("KeyError")
        ELSE
        LET used_server == {s3.allocations[n].server_port : n \in DOMAIN s3.allocations}
            used_debug  == {s3.allocations[n].debug_port : n \in DOMAIN s3.allocations}
            used_webrtc == {s3.allocations[n].webrtc_port_start : n \in DOMAIN s3.allocations}
            server_port == find_free_tcp_port(s3.next_server_port, used_server, busy.tcp)
            debug_port  == find_free_tcp_port(s3.next_debug_port, used_debug, busy.tcp)
            webrtc_port_start ==
                find_free_webrtc_range(s3.next_webrtc_port, used_webrtc,
                                       WEBRTC_RANGE_SIZE, busy.udp)
            ports == Triple(server_port, debug_port, webrtc_port_start)
        IN  CASE server_port < 0 -> Failed(ErrorOf(server_port))
              [] debug_port < 0 -> Failed(ErrorOf(debug_port))
              [] webrtc_port_start < 0 -> Failed(ErrorOf(webrtc_port_start))
              [] OTHER ->
                 [ok |-> TRUE,
                  state |-> [s3 EXCEPT
                               !.allocations = With(s3.allocations, docker_name, ports),
                               !.next_server_port = server_port + 1,
                               !.next_debug_port  = debug_port + 1,
                               !.next_webrtc_port = webrtc_port_start + WEBRTC_RANGE_SIZE],
                  ports |-> ports, exc |-> "none"]

\* a release that also resets the cursors whatever is left
release_ports_compute_reset(docker_name, state0) ==
    maybe_reset_cursors_always(release_ports_unlocked(docker_name, state0))

release_ports_compute(docker_name, state0) ==
    maybe_reset_cursors(release_ports_unlocked(docker_name, state0))

(* ------------------------------------------------------------------ *)
(* Launch configuration and the run command                            *)
(* ------------------------------------------------------------------ *)
DefaultConfig == Triple(ConfigServerPort, ConfigDebugPort, ConfigWebrtcStart)

webrtc_port_end(config) == config.webrtc_port_start + WEBRTC_RANGE_SIZE - 1

\* the host ports the run command publishes
neko_docker_cmd_no_udp(config) ==
    [server |-> config.server_port, debug |-> config.debug_port,
     udp_lo |-> config.webrtc_port_start, udp_hi |-> config.webrtc_port_start - 1]

neko_docker_cmd(config) ==
    [server |-> config.server_port, debug |-> config.debug_port,
     udp_lo |-> config.webrtc_port_start, udp_hi |-> webrtc_port_end(config)]

\* the runtime refuses to publish a host port a running container holds
PublishConflict(a, b) ==
    \/ {a.server, a.debug} \cap {b.server, b.debug} # {}
    \/ (a.udp_lo <= b.udp_hi /\ b.udp_lo <= a.udp_hi)

(* ------------------------------------------------------------------ *)
(* State                                                               *)
(* ------------------------------------------------------------------ *)
VARIABLES
    file,        \* the state file (NEKO_PORT_STATE_FILE)
    containers,  \* the runtime: name -> [pub, owner] of each running container
    thread_lock, \* holder of the RLock of each OS process
    file_lock,   \* holder of the flock on the lock file
    same_process,\* whether the two threads live in one OS process
    thr,         \* per thread: its position and the locals of its call
    calls,       \* top-level calls made so far
    default_state, \* the module-level dict _DEFAULT_STATE
    launcher,    \* per process: the atexit registry and self.screenshot_process
    screenshot_loops \* the background bash loops that are alive

vars == <<file, containers, thread_lock, file_lock, same_process, thr, calls,
          default_state, launcher, screenshot_loops>>

OsOf(p) == IF same_process THEN "t1" ELSE p

\* a process that has registered no exit hook and started no screenshot
\* loop; hooks are kept in the order of their registration
NoLoop == [docker_name |-> <<>>, owner |-> NoThread]
NoLauncher == [atexit |-> <<>>, screenshot_process |-> NoLoop]

IdleThread ==
    [pc |-> "idle", op |-> "none", docker_name |-> <<>>,
     config |-> DefaultConfig, state |-> DEFAULT_STATE, running |-> RunningNone,
     busy |-> NoBusy, ports |-> NoPorts, ret |-> "none",
     out |-> "none", stage |-> "none", attempt |-> 0, rt |-> FALSE,
     step |-> 0, handle |-> "none", ws |-> "none", shared |-> FALSE,
     skip |-> FALSE, sig |-> <<>>, again |-> FALSE]

Init ==
    /\ file = NoFile
    /\ containers = [n \in {} |-> 0]
    /\ thread_lock = [o \in Threads |-> NoThread]
    /\ file_lock = NoThread
    /\ same_process \in BOOLEAN
    /\ thr = [p \in Threads |-> IdleThread]
    /\ calls = 0
    /\ default_state = DEFAULT_STATE
    /\ launcher = [p \in Threads |-> NoLauncher]
    /\ screenshot_loops = {}

Upd(p, r) == thr' = [thr EXCEPT ![p] = r]

\* the answers the port probes give during one search: every port free, or
\* the first candidate of both TCP searches refused, or these and one UDP
\* port inside the first WebRTC range refused
BusyAnswers ==
    {NoBusy,
     [tcp |-> {DefaultServerPort, DefaultDebugPort}, udp |-> {}],
     [tcp |-> {DefaultServerPort, DefaultDebugPort},
      udp |-> {DefaultWebrtcPort + 50}]}

(* ------------------------------------------------------------------ *)
(* Exceptions and returns                                              *)
(* ------------------------------------------------------------------ *)
\* launch's `except Exception` handler: _release_ports(name), then raise
\* BrowserLaunchError; stage records the step that failed
Except(t, stage) ==
    [t EXCEPT !.pc = "release_enter", !.ret = "launch_raise",
              !.out = "none", !.stage = stage]

\* an outer handler that lets the exception leave cleanup
cleanup_except_reraise(t, exc) == [t EXCEPT !.pc = "done", !.out = exc]

\* cleanup's outer `except Exception`: the error is logged and cleanup
\* returns; the statements after the failed one are not run
cleanup_except(t, exc) == [t EXCEPT !.pc = "done", !.out = "ok"]

\* a retry loop without a bound
NextAttempt_unbounded(t) ==
    [t EXCEPT !.pc = "launch_run", !.attempt = t.attempt + 1]

\* _launch_with_retry: the loop is left after max_retries failed attempts
NextAttempt(t) ==
    IF t.attempt + 1 < max_retries
    THEN [t EXCEPT !.pc = "launch_run", !.attempt = t.attempt + 1]
    ELSE Except([t EXCEPT !.attempt = t.attempt + 1], "run")

\* where an exception raised inside _allocate_ports / _release_ports goes:
\* the retry loop runs inside launch's try block, every other caller lets
\* it propagate
Raise(t, exc) ==
    CASE t.ret = "launch_retry" -> Except(t, "run")
      [] t.ret = "cleanup_handle" -> cleanup_except(t, exc)
      \* atexit prints the exception of a hook and runs the next one
      [] t.ret = "exit_hooks" -> [t EXCEPT !.pc = "exit_hooks"]
      [] OTHER -> [t EXCEPT !.pc = "done", !.out = exc]

\* _allocate_ports / _release_ports return normally to the caller
Return(t) ==
    CASE t.ret = "done" -> [t EXCEPT !.pc = "done", !.out = "ok"]
      \* stop_docker returned to launch: next statement is _allocate_ports
      [] t.ret = "launch_allocate" ->
            [t EXCEPT !.pc = "allocate_enter", !.ret = "launch_config"]
      \* retry loop: _release_ports returned, next statement is _allocate_ports
      [] t.ret = "launch_realloc" ->
            [t EXCEPT !.pc = "allocate_enter", !.ret = "launch_retry"]
      \* retry loop: _allocate_ports returned, the ports go into config and
      \* the next attempt starts
      [] t.ret = "launch_retry" ->
            NextAttempt([t EXCEPT !.config = t.ports, !.ports = NoPorts,
                                  !.busy = NoBusy])
      \* stop_docker returned to cleanup: process.terminate(), cleanup returns
      [] t.ret = "cleanup_handle" ->
            [t EXCEPT !.pc = "done", !.out = "ok", !.handle = "terminated"]
      \* the except handler's release returned: raise BrowserLaunchError
      [] t.ret = "launch_raise" ->
            [t EXCEPT !.pc = "done", !.out = "BrowserLaunchError",
                      !.attempt = 0]
      [] OTHER -> [t EXCEPT !.pc = t.ret]

(* ------------------------------------------------------------------ *)
(* Top-level calls                                                     *)
(* ------------------------------------------------------------------ *)
Idle(p) == thr[p].pc \in {"idle", "done"}

CallAllocate(p) ==
    /\ Idle(p)
    /\ calls < MaxCalls
    /\ calls' = calls + 1
    /\ \E n \in Names :
         Upd(p, [IdleThread EXCEPT !.pc = "allocate_enter", !.op = "allocate",
                                   !.docker_name = n, !.ret = "done"])
    /\ UNCHANGED <<file, containers, thread_lock, file_lock, same_process,
                   default_state,
                   launcher, screenshot_loops>>

CallRelease(p) ==
    /\ Idle(p)
    /\ calls < MaxCalls
    /\ calls' = calls + 1
    /\ \E n \in Names :
         Upd(p, [IdleThread EXCEPT !.pc = "release_enter", !.op = "release",
                                   !.docker_name = n, !.ret = "done"])
    /\ UNCHANGED <<file, containers, thread_lock, file_lock, same_process,
                   default_state,
                   launcher, screenshot_loops>>

CallLaunch(p) ==
    /\ Idle(p)
    /\ calls < MaxLaunchCalls
    /\ calls' = calls + 1
    /\ \E n \in LaunchNames(p) :
         Upd(p, [IdleThread EXCEPT !.pc = "launch_image", !.op = "launch",
                                   !.docker_name = n])
    /\ UNCHANGED <<file, containers, thread_lock, file_lock, same_process,
                   default_state,
                   launcher, screenshot_loops>>

(* ------------------------------------------------------------------ *)
(* _allocate_ports                                                     *)
(* ------------------------------------------------------------------ *)
\* `with _thread_lock:` then `with _FileLock(_PORT_LOCK_FILE):` (flock on a
\* fresh descriptor). The two acquisitions are one step: the order is the
\* same in every caller, so holding the first while waiting for the second
\* changes no outcome.
\* the RLock alone, without the flock
LocksFree_no_flock(p) == thread_lock[OsOf(p)] = NoThread

LocksFree(p) == thread_lock[OsOf(p)] = NoThread /\ file_lock = NoThread

LocksTaken(p) ==
    /\ thread_lock' = [thread_lock EXCEPT ![OsOf(p)] = p]
    /\ file_lock' = p

\* leaving the with blocks without the LOCK_UN and close of __exit__
LocksReleased_flock_kept(p) ==
    /\ thread_lock' = [thread_lock EXCEPT ![OsOf(p)] = NoThread]
    /\ file_lock' = file_lock

\* _FileLock.__exit__, then _thread_lock is released
LocksReleased(p) ==
    /\ thread_lock' = [thread_lock EXCEPT ![OsOf(p)] = NoThread]
    /\ file_lock' = NoThread

\* what `docker ps` can answer to _running_docker_names: the call raises
\* (CLI missing, timeout) -> None; the daemon is down -> empty output, no
\* exception -> the empty set; otherwise the running names
running_docker_names ==
    {RunningNone, RunningDown, RunningSet(DOMAIN containers)}

\* _validate_docker_name raises ValueError, or: locks;
\* state = _read_state(); running = _running_docker_names()
allocate_enter(p) ==
    /\ thr[p].pc = "allocate_enter"
    /\ \/ /\ ~validate_docker_name(thr[p].docker_name)
          /\ Upd(p, Raise(thr[p], "ValueError"))
          /\ UNCHANGED <<thread_lock, file_lock>>
       \/ /\ validate_docker_name(thr[p].docker_name)
          /\ LocksFree(p)
          /\ ~read_state_raises(file)
          /\ LocksTaken(p)
          /\ \E r \in running_docker_names :
               Upd(p, [thr[p] EXCEPT !.pc = "allocate_find",
                                     !.state = read_state(file),
                                     !.shared = read_state_shares(file),
                                     !.running = r,
                                     !.rt = TRUE])
       \/ \* _read_state raises: the with blocks release both locks
          /\ validate_docker_name(thr[p].docker_name)
          /\ LocksFree(p)
          /\ read_state_raises(file)
          /\ Upd(p, Raise(thr[p], "AttributeError"))
          /\ UNCHANGED <<thread_lock, file_lock>>
    /\ UNCHANGED <<file, containers, same_process, calls, default_state,
                   launcher, screenshot_loops>>

\* the dict `state` of _allocate_ports when the searches start: read, then
\* changed in memory by the purge, the reset and the drop of the stale entry
allocate_ports_memory(docker_name, state0, running) ==
    LET s2 == maybe_reset_cursors(purge_dead_allocations(state0, running))
    IN  IF docker_name \in DOMAIN s2.allocations
        THEN release_ports_unlocked(docker_name, s2)
        ELSE s2

\* a write placed in a `finally`: the dict in memory is written although a
\* search raised
allocate_written_finally(f, r, mem) ==
    IF r.ok THEN FileOf(r.state) ELSE FileOf(mem)

\* the state file when _allocate_ports is left: _write_state is the last
\* statement before the return, an exception from a search skips it
allocate_written(f, r, mem) ==
    IF r.ok THEN FileOf(r.state) ELSE f

\* purge, reset, drop the stale entry, search, insert, advance, write; the
\* locks are released and the call returns, or raises when a search failed
allocate_find(p) ==
    /\ thr[p].pc = "allocate_find"
    /\ LocksReleased(p)
    /\ \E busy \in BusyAnswers :
         LET r == allocate_ports_compute(thr[p].docker_name, thr[p].state,
                                         thr[p].running, busy)
             \* busy is kept for the caller of a direct allocate only: it
             \* is what the probes answered, not a value of the program
             t == [thr[p] EXCEPT !.state = DEFAULT_STATE,
                                 !.running = RunningNone,
                                 !.busy = IF thr[p].op = "allocate"
                                          THEN busy ELSE NoBusy,
                                 !.ports = r.ports]
             mem == allocate_ports_memory(thr[p].docker_name, thr[p].state,
                                          thr[p].running)
         IN  /\ file' = allocate_written(file, r, mem)
             /\ default_state' =
                   default_after(default_state, thr[p].shared,
                                 IF r.ok THEN r.state ELSE mem)
             /\ Upd(p, IF r.ok THEN Return(t) ELSE Raise(t, r.exc))
    /\ UNCHANGED <<containers, same_process, calls,
                   launcher, screenshot_loops>>

(* ------------------------------------------------------------------ *)
(* _release_ports                                                      *)
(* ------------------------------------------------------------------ *)
\* _validate_docker_name raises ValueError, or: locks; state = _read_state()
release_enter(p) ==
    /\ thr[p].pc = "release_enter"
    /\ \/ /\ ~validate_docker_name(thr[p].docker_name)
          /\ Upd(p, Raise(thr[p], "ValueError"))
          /\ UNCHANGED <<thread_lock, file_lock>>
       \/ /\ validate_docker_name(thr[p].docker_name)
          /\ LocksFree(p)
          /\ ~read_state_raises(file)
          /\ LocksTaken(p)
          /\ Upd(p, [thr[p] EXCEPT !.pc = "release_write",
                                   !.state = read_state(file),
                                   !.shared = read_state_shares(file)])
       \/ \* _read_state raises: the with blocks release both locks
          /\ validate_docker_name(thr[p].docker_name)
          /\ LocksFree(p)
          /\ read_state_raises(file)
          /\ Upd(p, Raise(thr[p], "AttributeError"))
          /\ UNCHANGED <<thread_lock, file_lock>>
    /\ UNCHANGED <<file, containers, same_process, calls, default_state,
                   launcher, screenshot_loops>>

\* drop the entry, reset the cursors when nothing is left, write; the locks
\* are released and the call returns
release_write(p) ==
    /\ thr[p].pc = "release_write"
    /\ LocksReleased(p)
    /\ file' = FileOf(release_ports_compute(thr[p].docker_name, thr[p].state))
    /\ default_state' =
          default_after(default_state, thr[p].shared,
                        release_ports_compute(thr[p].docker_name, thr[p].state))
    /\ Upd(p, Return([thr[p] EXCEPT !.state = DEFAULT_STATE]))
    /\ UNCHANGED <<containers, same_process, calls,
                   launcher, screenshot_loops>>

(* ------------------------------------------------------------------ *)
(* NekoBrowserLauncher.stop_docker                                     *)
(* ------------------------------------------------------------------ *)
RemoveContainer(n) == [m \in (DOMAIN containers) \ {n} |-> containers[m]]

\* `docker ps -a` (check=True); when the name is listed: kill, rm -f, then
\* _release_ports(name). Called by launch and by cleanup.
stop_docker(p) ==
    /\ thr[p].pc \in {"launch_stop", "cleanup_stop"}
    /\ LET t == [thr[p] EXCEPT !.rt = TRUE, !.sig = <<>>]
           in_launch == thr[p].pc = "launch_stop"
       IN
       \/ \* the listing command fails: CalledProcessError; launch lets it
          \* propagate, cleanup's outer handler catches it
          /\ Upd(p, IF in_launch
                    THEN [t EXCEPT !.pc = "done", !.out = "CalledProcessError",
                                   !.stage = "stop"]
                    ELSE cleanup_except([t EXCEPT !.stage = "stop"],
                                        "CalledProcessError"))
          /\ UNCHANGED containers
       \/ /\ t.docker_name \in DOMAIN containers
          /\ containers' = RemoveContainer(t.docker_name)
          /\ Upd(p, [t EXCEPT !.pc = "release_enter",
                              !.ret = IF in_launch THEN "launch_allocate"
                                      ELSE "cleanup_handle"])
       \/ /\ t.docker_name \notin DOMAIN containers
          /\ UNCHANGED containers
          /\ Upd(p, IF in_launch
                    THEN [t EXCEPT !.pc = "allocate_enter",
                                   !.ret = "launch_config"]
                    ELSE [t EXCEPT !.pc = "done", !.out = "ok",
                                   !.handle = "terminated"])
    /\ UNCHANGED <<file, thread_lock, file_lock, same_process, calls,
                   default_state,
                   launcher, screenshot_loops>>

(* ------------------------------------------------------------------ *)
(* NekoBrowserLauncher.launch                                          *)
(* ------------------------------------------------------------------ *)
\* `docker images -q`; when the image is missing, _build_neko_image
launch_image(p) ==
    /\ thr[p].pc = "launch_image"
    /\ \/ Upd(p, [thr[p] EXCEPT !.pc = "launch_stop", !.rt = TRUE])
       \/ Upd(p, [thr[p] EXCEPT !.pc = "done", !.rt = TRUE,
                                !.out = "BrowserLaunchError", !.stage = "image"])
    /\ UNCHANGED <<file, containers, thread_lock, file_lock, same_process, calls,
                   default_state,
                   launcher, screenshot_loops>>

\* the ports go into config; clean_browser_profile (outside the try block)
launch_config(p) ==
    /\ thr[p].pc = "launch_config"
    /\ LET t == [thr[p] EXCEPT !.config = thr[p].ports, !.ports = NoPorts,
                               !.busy = NoBusy]
       IN  \/ Upd(p, [t EXCEPT !.pc = "launch_run"])
           \/ Upd(p, [t EXCEPT !.pc = "done", !.out = "TypeError",
                               !.stage = "profile"])
    /\ UNCHANGED <<file, containers, thread_lock, file_lock, same_process, calls,
                   default_state,
                   launcher, screenshot_loops>>

\* the runtime starts the container only under a name the shell passes
\* through whole, not in use, and with host ports no running container holds
CanStart(t) ==
    LET pub == neko_docker_cmd(t.config)
    IN  /\ FullMatch(t.docker_name)
        /\ t.docker_name \notin DOMAIN containers
        /\ pub.server # pub.debug
        /\ \A m \in DOMAIN containers : ~PublishConflict(pub, containers[m].pub)

Started(p, t) ==
    [m \in (DOMAIN containers) \cup {t.docker_name} |->
        IF m = t.docker_name
        THEN [pub |-> neko_docker_cmd(t.config), owner |-> p]
        ELSE containers[m]]

\* one iteration of _launch_with_retry: Popen(neko_docker_cmd), communicate
launch_run(p) ==
    /\ thr[p].pc = "launch_run"
    /\ LET t == [thr[p] EXCEPT !.rt = TRUE]
       IN
       \/ \* returncode 0
          /\ CanStart(t)
          /\ containers' = Started(p, t)
          /\ Upd(p, [t EXCEPT !.pc = "launch_ready"])
       \/ \* "port is already allocated" / "address already in use"
          /\ FullMatch(t.docker_name)
          /\ t.docker_name \notin DOMAIN containers
          /\ UNCHANGED containers
          /\ Upd(p, [t EXCEPT !.pc = "release_enter", !.ret = "launch_realloc"])
       \/ \* "Conflict. The container name": docker rm -f
          /\ t.docker_name \in DOMAIN containers
          /\ containers' = RemoveContainer(t.docker_name)
          /\ Upd(p, NextAttempt(t))
       \/ \* any other non-zero exit
          /\ UNCHANGED containers
          /\ Upd(p, Except(t, "run"))
       \/ \* TimeoutExpired: the client is killed; the container may be up
          /\ FullMatch(t.docker_name)
          /\ \/ UNCHANGED containers
             \/ CanStart(t) /\ containers' = Started(p, t)
          /\ Upd(p, Except(t, "timeout"))
    /\ UNCHANGED <<file, thread_lock, file_lock, same_process, calls,
                   default_state,
                   launcher, screenshot_loops>>

\* _get_websocket_url polls http://localhost:<debug_port>/json/version:
\* the answer comes from whichever container publishes that host port now
\* (identified by the launch that started it), or from some other server
get_websocket_url(debug_port) ==
    LET serving == {m \in DOMAIN containers :
                        containers[m].pub.debug = debug_port}
    IN  IF serving = {} THEN "other"
        ELSE containers[CHOOSE m \in serving : TRUE].owner

\* `pgrep -af "docker exec <name> scrot"`: the command line of a bash loop
\* holds this text for as long as the loop lives, whatever it is executing
pgrep(docker_name, loops) == {l \in loops : l.docker_name = docker_name}

\* _get_websocket_url returns or raises; then _start_screenshot_loop
\* (take_screenshot is True by default) looks for a loop of this name
launch_ready(p) ==
    /\ thr[p].pc = "launch_ready"
    /\ \/ Upd(p, [thr[p] EXCEPT
                    !.pc = "launch_spawn",
                    !.ws = get_websocket_url(thr[p].config.debug_port),
                    !.skip = pgrep(thr[p].docker_name, screenshot_loops) # {}])
       \/ Upd(p, Except(thr[p], "ready"))
    /\ UNCHANGED <<file, containers, thread_lock, file_lock, same_process, calls,
                   default_state, launcher, screenshot_loops>>

\* the exit hooks a process has registered, in the order of registration
StopScreenshotHook == [fn |-> "_stop_screenshot", docker_name |-> <<>>]
AtexitCleanupHook(docker_name) ==
    [fn |-> "_atexit_cleanup", docker_name |-> docker_name]

\* the rest of _start_screenshot_loop: [SKIP] when pgrep found a loop,
\* else Popen(["bash", "-c", cmd]), self.screenshot_process is the new loop
\* and _stop_screenshot is registered
start_screenshot_loop(l, skip, loop) ==
    IF skip THEN l
    ELSE [l EXCEPT !.screenshot_process = loop,
                   !.atexit = Append(l.atexit, StopScreenshotHook)]

\* _start_screenshot_loop after its pgrep, then atexit.register(
\* _atexit_cleanup) and launch returns (process, ws_url); Popen may raise
launch_spawn(p) ==
    /\ thr[p].pc = "launch_spawn"
    /\ LET loop == [docker_name |-> thr[p].docker_name, owner |-> p]
           l == start_screenshot_loop(launcher[p], thr[p].skip, loop)
       IN  \/ /\ Upd(p, [thr[p] EXCEPT !.pc = "launched", !.out = "ok",
                                        !.handle = "live", !.skip = FALSE])
              /\ screenshot_loops' = IF thr[p].skip THEN screenshot_loops
                                     ELSE screenshot_loops \cup {loop}
              /\ launcher' =
                    [launcher EXCEPT ![p] =
                       [l EXCEPT !.atexit =
                           Append(l.atexit, AtexitCleanupHook(thr[p].docker_name))]]
           \/ /\ ~thr[p].skip
              /\ Upd(p, Except([thr[p] EXCEPT !.skip = FALSE], "screenshot"))
              /\ UNCHANGED <<launcher, screenshot_loops>>
    /\ UNCHANGED <<file, containers, thread_lock, file_lock, same_process, calls,
                   default_state>>

\* the bash loop: when `docker ps -a` does not list the name it breaks
screenshot_loop_exits ==
    /\ \E l \in screenshot_loops :
          /\ l.docker_name \notin DOMAIN containers
          /\ screenshot_loops' = screenshot_loops \ {l}
    /\ UNCHANGED <<file, containers, thread_lock, file_lock, same_process, thr,
                   calls, default_state, launcher>>

(* ------------------------------------------------------------------ *)
(* NekoBrowserLauncher.cleanup                                         *)
(* ------------------------------------------------------------------ *)
\* what the commands of _graceful_close_chrome answer: killall succeeds,
\* fails (the fallback loop is run) or times out; the check after the wait
\* finds browser processes or none, or times out
CloseAnswers ==
    [killall : {"ok", "fails", "timeout"}, check : {"alive", "none", "timeout"}]

\* a close that sends the kill signal whatever the check found
graceful_close_chrome_kill_always(listed, ans) ==
    IF ~listed THEN <<>>
    ELSE <<"killall -TERM", "sleep 3", "ps", "kill -9">>

\* _graceful_close_chrome: the commands it issues, in order. Nothing when
\* `docker ps` does not list the name; a timeout ends the function.
graceful_close_chrome(listed, ans) ==
    IF ~listed THEN <<>>
    ELSE IF ans.killall = "timeout" THEN <<"killall -TERM">>
    ELSE LET term == IF ans.killall = "fails"
                     THEN <<"killall -TERM", "kill -TERM">>
                     ELSE <<"killall -TERM">>
         IN  IF ans.check = "alive"
             THEN term \o <<"sleep 3", "ps alive", "kill -9">>
             ELSE term \o <<"sleep 3", "ps">>

\* cleanup up to its call of stop_docker: self.screenshot_process, when
\* there is one, is terminated; then _graceful_close_chrome, whose listing
\* (`docker ps`, unchecked) shows the running names or nothing
cleanup_begin(p, t) ==
    /\ screenshot_loops' = screenshot_loops \ {launcher[p].screenshot_process}
    /\ \E listing \in {DOMAIN containers, {}}, ans \in CloseAnswers :
          Upd(p, [t EXCEPT !.pc = "cleanup_stop", !.op = "cleanup",
                           !.out = "none", !.stage = "none", !.rt = TRUE,
                           !.sig = graceful_close_chrome(
                                       t.docker_name \in listing, ans)])
    /\ UNCHANGED <<file, containers, thread_lock, file_lock, same_process,
                   default_state, launcher>>

\* cleanup(config, process) of a launch that returned
CallCleanup(p) ==
    /\ thr[p].pc = "launched"
    /\ calls < MaxLaunchCalls
    /\ calls' = calls + 1
    /\ cleanup_begin(p, thr[p])

\* cleanup(config, process) once more, with the same arguments, after the
\* first call returned
CallCleanupAgain(p) ==
    /\ thr[p].pc = "done" /\ thr[p].op = "cleanup"
    /\ ~thr[p].again
    /\ calls' = calls
    /\ cleanup_begin(p, [thr[p] EXCEPT !.again = TRUE])

(* ------------------------------------------------------------------ *)
(* Normal exit of a process: the atexit hooks                          *)
(* ------------------------------------------------------------------ *)
\* the interpreter exits while no call is running
process_exit(p) ==
    /\ thr[p].pc \in {"idle", "done", "launched"}
    /\ Upd(p, [IdleThread EXCEPT !.pc = "exit_hooks", !.op = "exit"])
    /\ UNCHANGED <<file, containers, thread_lock, file_lock, same_process, calls,
                   default_state, launcher, screenshot_loops>>

\* a hook that leaves the container running
atexit_cleanup_no_kill(docker_name) == containers

\* the first statement of _atexit_cleanup: `docker kill <name>`, unchecked
atexit_cleanup_kill(docker_name) ==
    [m \in (DOMAIN containers) \ {docker_name} |-> containers[m]]

\* atexit runs the hooks last registered first. _stop_screenshot kills
\* self.screenshot_process; _atexit_cleanup kills the container of its
\* name and calls _release_ports(name)
exit_hook(p) ==
    /\ thr[p].pc = "exit_hooks"
    /\ LET hooks == launcher[p].atexit
           hook == hooks[Len(hooks)]
       IN  \/ /\ hooks = <<>>
              /\ Upd(p, [thr[p] EXCEPT !.pc = "exited"])
              /\ UNCHANGED <<containers, launcher, screenshot_loops>>
           \/ /\ hooks # <<>>
              /\ launcher' = [launcher EXCEPT
                                ![p].atexit = SubSeq(hooks, 1, Len(hooks) - 1)]
              /\ IF hook.fn = "_stop_screenshot"
                 THEN /\ screenshot_loops' =
                            screenshot_loops \ {launcher[p].screenshot_process}
                      /\ UNCHANGED <<containers, thr>>
                 ELSE /\ containers' = atexit_cleanup_kill(hook.docker_name)
                      /\ Upd(p, [thr[p] EXCEPT !.pc = "release_enter",
                                               !.docker_name = hook.docker_name,
                                               !.ret = "exit_hooks"])
                      /\ UNCHANGED screenshot_loops
    /\ UNCHANGED <<file, thread_lock, file_lock, same_process, calls,
                   default_state>>

(* ------------------------------------------------------------------ *)
(* Environment                                                         *)
(* ------------------------------------------------------------------ *)
\* a running container exits or is removed from outside
container_dies ==
    /\ \E n \in DOMAIN containers : containers' = RemoveContainer(n)
    /\ UNCHANGED <<file, thread_lock, file_lock, same_process, thr, calls,
                   default_state,
                   launcher, screenshot_loops>>

\* a container is started from outside this module (the caller of
\* allocate starts its container; a crashed process left one running)
container_starts ==
    /\ \E n \in {m \in Names : FullMatch(m)} \ DOMAIN containers :
         containers' =
            [m \in (DOMAIN containers) \cup {n} |->
                IF m = n
                THEN [pub |-> neko_docker_cmd(DefaultConfig), owner |-> NoThread]
                ELSE containers[m]]
    /\ UNCHANGED <<file, thread_lock, file_lock, same_process, thr, calls,
                   default_state,
                   launcher, screenshot_loops>>

(* ------------------------------------------------------------------ *)
(* Specifications                                                      *)
(* ------------------------------------------------------------------ *)
\* the allocator under direct allocate / release calls
Next ==
    \/ \E p \in Threads :
         \/ CallAllocate(p)
         \/ CallRelease(p)
         \/ allocate_enter(p)
         \/ allocate_find(p)
         \/ release_enter(p)
         \/ release_write(p)
    \/ container_starts
    \/ container_dies

Spec == Init /\ [][Next]_vars

\* the launcher: launch and cleanup calls, which call the allocator
NextLaunch ==
    \/ \E p \in Threads :
         \/ CallLaunch(p)
         \/ CallCleanup(p)
         \/ CallCleanupAgain(p)
         \/ process_exit(p)
         \/ exit_hook(p)
         \/ allocate_enter(p)
         \/ allocate_find(p)
         \/ release_enter(p)
         \/ release_write(p)
         \/ stop_docker(p)
         \/ launch_image(p)
         \/ launch_config(p)
         \/ launch_run(p)
         \/ launch_ready(p)
         \/ launch_spawn(p)
    \/ screenshot_loop_exits
    \/ container_dies

\* the launchers run in separate processes: the RLock of each is
\* uncontended and the flock alone serialises them
InitLaunch == Init /\ same_process = FALSE

SpecLaunch == InitLaunch /\ [][NextLaunch]_vars

(* ------------------------------------------------------------------ *)
(* The allocator with _write_state step by step and process kills      *)
(* ------------------------------------------------------------------ *)
\* _allocate_ports up to the call of _write_state: the document to write
\* is kept in state
allocate_compute(p) ==
    /\ thr[p].pc = "allocate_find"
    /\ \E busy \in BusyAnswers :
         LET r == allocate_ports_compute(thr[p].docker_name, thr[p].state,
                                         thr[p].running, busy)
             t == [thr[p] EXCEPT !.running = RunningNone, !.ports = r.ports]
             mem == allocate_ports_memory(thr[p].docker_name, thr[p].state,
                                          thr[p].running)
         IN  /\ default_state' =
                   default_after(default_state, thr[p].shared,
                                 IF r.ok THEN r.state ELSE mem)
             /\ IF r.ok
                THEN /\ Upd(p, [t EXCEPT !.pc = "write", !.state = r.state])
                     /\ UNCHANGED <<thread_lock, file_lock>>
                ELSE /\ Upd(p, Raise([t EXCEPT !.state = DEFAULT_STATE], r.exc))
                     /\ LocksReleased(p)
    /\ UNCHANGED <<file, containers, same_process, calls,
                   launcher, screenshot_loops>>

\* _release_ports up to the call of _write_state
release_compute(p) ==
    /\ thr[p].pc = "release_write"
    /\ Upd(p, [thr[p] EXCEPT !.pc = "write",
                             !.state = release_ports_compute(thr[p].docker_name,
                                                             thr[p].state)])
    /\ default_state' =
          default_after(default_state, thr[p].shared,
                        release_ports_compute(thr[p].docker_name, thr[p].state))
    /\ UNCHANGED <<file, containers, thread_lock, file_lock, same_process, calls,
                   launcher, screenshot_loops>>

\* one step of _write_state; after the last one the locks are released and
\* the call returns
write_state(p) ==
    /\ thr[p].pc = "write"
    /\ file' = write_state_step(file, thr[p].state, thr[p].step + 1)
    /\ IF thr[p].step + 1 < 4
       THEN /\ Upd(p, [thr[p] EXCEPT !.step = thr[p].step + 1])
            /\ UNCHANGED <<thread_lock, file_lock>>
       ELSE /\ Upd(p, Return([thr[p] EXCEPT !.step = 0, !.state = DEFAULT_STATE]))
            /\ LocksReleased(p)
    /\ UNCHANGED <<containers, same_process, calls, default_state,
                   launcher, screenshot_loops>>

\* the process of p is killed inside a call: all its threads are gone, the
\* kernel drops its flock; the files stay as they are
process_killed(p) ==
    /\ thr[p].pc \notin {"idle", "done"}
    /\ thr' = [q \in Threads |->
                IF OsOf(q) = OsOf(p) /\ thr[q].pc \notin {"idle", "done"}
                THEN [IdleThread EXCEPT !.pc = "done", !.op = thr[q].op,
                                        !.docker_name = thr[q].docker_name,
                                        !.out = "killed"]
                ELSE thr[q]]
    /\ thread_lock' = [thread_lock EXCEPT ![OsOf(p)] = NoThread]
    /\ file_lock' = IF file_lock # NoThread /\ OsOf(file_lock) = OsOf(p)
                    THEN NoThread ELSE file_lock
    /\ UNCHANGED <<file, containers, same_process, calls, default_state,
                   launcher, screenshot_loops>>

NextCrash ==
    \E p \in Threads :
        \/ CallAllocate(p)
        \/ CallRelease(p)
        \/ allocate_enter(p)
        \/ allocate_compute(p)
        \/ release_enter(p)
        \/ release_compute(p)
        \/ write_state(p)
        \/ process_killed(p)

SpecCrash == Init /\ [][NextCrash]_vars

(* ------------------------------------------------------------------ *)
(* The allocator started on a state file that already has content      *)
(* ------------------------------------------------------------------ *)
\* the document after allocate(b) on an empty state
EpochDoc ==
    [next_server_port |-> DefaultServerPort + 1,
     next_debug_port  |-> DefaultDebugPort + 1,
     next_webrtc_port |-> DefaultWebrtcPort + WEBRTC_RANGE_SIZE,
     allocations |->
        With(NoAllocations, NameB,
             Triple(DefaultServerPort, DefaultDebugPort, DefaultWebrtcPort))]

\* the number of allocations one epoch has room for: the WebRTC cursor
\* moves by one range per allocation and never back
EpochLength == (MaxPortNo - DefaultWebrtcPort) \div WEBRTC_RANGE_SIZE

\* the document late in a long epoch: b was allocated first and is still
\* running, EpochLength - 1 other allocations were made and released since
LateEpochDoc ==
    [EpochDoc EXCEPT
        !.next_server_port = DefaultServerPort + EpochLength,
        !.next_debug_port  = DefaultDebugPort + EpochLength,
        !.next_webrtc_port = DefaultWebrtcPort + EpochLength * WEBRTC_RANGE_SIZE]

\* EpochDoc with a top-level key this version does not know
UnknownKeyDoc ==
    [k \in (DOMAIN EpochDoc) \cup {"schema_version"} |->
        IF k = "schema_version" THEN 2 ELSE EpochDoc[k]]

\* objects that lack keys: {"allocations": {...}}, {}, and the cursors alone
NoCursorDoc == [allocations |-> EpochDoc.allocations]
EmptyObjectDoc == [k \in {} |-> 0]
NoAllocationsDoc ==
    [next_server_port |-> DefaultServerPort + 1,
     next_debug_port  |-> DefaultDebugPort + 1,
     next_webrtc_port |-> DefaultWebrtcPort + WEBRTC_RANGE_SIZE]

\* what the state file can hold when a run starts: nothing, a document an
\* earlier run wrote, a document of another version, a text that is not
\* JSON, a JSON text that is not an object
InitialFiles ==
    {NoFile, FileOf(EpochDoc), FileOf(LateEpochDoc), FileOf(UnknownKeyDoc),
     FileOf(NoCursorDoc), FileOf(EmptyObjectDoc), FileOf(NoAllocationsDoc),
     [NoFile EXCEPT !.exists = TRUE, !.part = "partial"],
     [NoFile EXCEPT !.exists = TRUE, !.part = "nonobject"]}

\* the containers of the recorded names are running
InitFile ==
    /\ file \in InitialFiles
    /\ containers =
         [n \in DOMAIN read_state(file).allocations |->
             [pub |-> neko_docker_cmd(read_state(file).allocations[n]),
              owner |-> "other"]]
    /\ thread_lock = [o \in Threads |-> NoThread]
    /\ file_lock = NoThread
    /\ same_process \in BOOLEAN
    /\ thr = [p \in Threads |-> IdleThread]
    /\ calls = 0
    /\ default_state = DEFAULT_STATE
    /\ launcher = [p \in Threads |-> NoLauncher]
    /\ screenshot_loops = {}

NextFile ==
    \E p \in Threads :
        \/ CallAllocate(p)
        \/ CallRelease(p)
        \/ allocate_enter(p)
        \/ allocate_find(p)
        \/ release_enter(p)
        \/ release_write(p)

SpecFile == InitFile /\ [][NextFile]_vars

(* ------------------------------------------------------------------ *)
(* The allocator with the two locks taken one after the other          *)
(* ------------------------------------------------------------------ *)
\* _validate_docker_name, then `with _thread_lock:` of _allocate_ports and
\* of _release_ports: the RLock of the process is taken, the flock is not
\* yet requested
thread_lock_acquire(p) ==
    /\ thr[p].pc \in {"allocate_enter", "release_enter"}
    /\ \/ /\ ~validate_docker_name(thr[p].docker_name)
          /\ Upd(p, Raise(thr[p], "ValueError"))
          /\ UNCHANGED thread_lock
       \/ /\ validate_docker_name(thr[p].docker_name)
          /\ thread_lock[OsOf(p)] = NoThread
          /\ thread_lock' = [thread_lock EXCEPT ![OsOf(p)] = p]
          /\ Upd(p, [thr[p] EXCEPT !.pc = "flock"])
    /\ UNCHANGED <<file, containers, file_lock, same_process, calls,
                   default_state,
                   launcher, screenshot_loops>>

\* `with _FileLock(_PORT_LOCK_FILE):` flock(LOCK_EX) on a fresh descriptor,
\* then the first statements of the critical section: _read_state, and in
\* _allocate_ports the listing of _purge_dead_allocations
file_lock_acquire(p) ==
    /\ thr[p].pc = "flock"
    /\ file_lock = NoThread
    /\ file_lock' = p
    /\ IF thr[p].op = "allocate"
       THEN \E r \in running_docker_names :
               Upd(p, [thr[p] EXCEPT !.pc = "allocate_find",
                                     !.state = read_state(file),
                                     !.shared = read_state_shares(file),
                                     !.running = r,
                                     !.rt = TRUE])
       ELSE Upd(p, [thr[p] EXCEPT !.pc = "release_write",
                                  !.state = read_state(file),
                                  !.shared = read_state_shares(file)])
    /\ UNCHANGED <<file, containers, thread_lock, same_process, calls,
                   default_state,
                   launcher, screenshot_loops>>

\* _write_state raises (open or json.dump fails with OSError: disk full,
\* no permission): the state file is as it was, the with blocks release
\* both locks and the exception leaves the call
write_fails(p) ==
    /\ thr[p].pc \in {"allocate_find", "release_write"}
    /\ LocksReleased(p)
    /\ Upd(p, Raise([thr[p] EXCEPT !.state = DEFAULT_STATE,
                                   !.running = RunningNone], "OSError"))
    /\ UNCHANGED <<file, containers, same_process, calls, default_state,
                   launcher, screenshot_loops>>

\* the state file is the one late in a long epoch, on which the searches
\* fail unless the purge ends the epoch; the calls that wrote it count as
\* one call made
InitLocks ==
    /\ file = FileOf(LateEpochDoc)
    /\ containers =
         [n \in DOMAIN read_state(file).allocations |->
             [pub |-> neko_docker_cmd(read_state(file).allocations[n]),
              owner |-> "other"]]
    /\ thread_lock = [o \in Threads |-> NoThread]
    /\ file_lock = NoThread
    /\ same_process \in BOOLEAN
    /\ thr = [p \in Threads |-> IdleThread]
    /\ calls = 1
    /\ default_state = DEFAULT_STATE
    /\ launcher = [p \in Threads |-> NoLauncher]
    /\ screenshot_loops = {}

NextLocks ==
    \E p \in Threads :
        \/ CallAllocate(p)
        \/ CallRelease(p)
        \/ thread_lock_acquire(p)
        \/ file_lock_acquire(p)
        \/ allocate_find(p)
        \/ release_write(p)
        \/ write_fails(p)

\* a thread inside the critical section keeps running; a thread blocked on
\* a lock gets it if the lock is free again and again
SpecLocks ==
    /\ InitLocks
    /\ [][NextLocks]_vars
    /\ \A p \in Threads :
          /\ WF_vars(allocate_find(p) \/ release_write(p))
          /\ SF_vars(thread_lock_acquire(p))
          /\ SF_vars(file_lock_acquire(p))

(* ------------------------------------------------------------------ *)
(* The allocator on a host whose server port range is in use           *)
(* ------------------------------------------------------------------ *)
\* the document after allocate(b) on a host where other software listens
\* on every TCP port from the default server port up to two below the
\* default debug port: the server search skipped them all
CrowdedDoc ==
    [next_server_port |-> DefaultDebugPort,
     next_debug_port  |-> DefaultDebugPort + 1,
     next_webrtc_port |-> DefaultWebrtcPort + WEBRTC_RANGE_SIZE,
     allocations |->
        With(NoAllocations, NameB,
             Triple(DefaultDebugPort - 1, DefaultDebugPort, DefaultWebrtcPort))]

\* b's container is running
InitCrowded ==
    /\ file = FileOf(CrowdedDoc)
    /\ containers =
         [n \in DOMAIN CrowdedDoc.allocations |->
             [pub |-> neko_docker_cmd(CrowdedDoc.allocations[n]),
              owner |-> "other"]]
    /\ thread_lock = [o \in Threads |-> NoThread]
    /\ file_lock = NoThread
    /\ same_process = FALSE
    /\ thr = [p \in Threads |-> IdleThread]
    /\ calls = 0
    /\ default_state = DEFAULT_STATE
    /\ launcher = [p \in Threads |-> NoLauncher]
    /\ screenshot_loops = {}

SpecCrowded == InitCrowded /\ [][Next]_vars

(* ------------------------------------------------------------------ *)
(* The two searches on their own                                       *)
(* ------------------------------------------------------------------ *)
\* the slots the searches are tried on: the first two of an epoch and the
\* last two below the top; slot i is a TCP port with the start of a WebRTC
\* range
TopWebrtcPort == DefaultWebrtcPort + (EpochLength - 1) * WEBRTC_RANGE_SIZE
FindSlots ==
    {Triple(DefaultServerPort, DefaultServerPort, DefaultWebrtcPort),
     Triple(DefaultServerPort + 1, DefaultServerPort + 1,
            DefaultWebrtcPort + WEBRTC_RANGE_SIZE),
     Triple(MaxPortNo - 1, MaxPortNo - 1, TopWebrtcPort - WEBRTC_RANGE_SIZE),
     Triple(MaxPortNo, MaxPortNo, TopWebrtcPort)}

\* the cursors the searches start from: a slot, or the cursors left by an
\* allocation of the last slot (next_server_port = server_port + 1,
\* next_webrtc_port = webrtc_port_start + _WEBRTC_RANGE_SIZE)
FindStarts ==
    FindSlots \cup {Triple(MaxPortNo + 1, MaxPortNo + 1,
                           TopWebrtcPort + WEBRTC_RANGE_SIZE)}

\* the records that seed the used sets: none, one slot, or two
FindAllocations ==
    {NoAllocations}
    \cup {With(NoAllocations, NameA, u) : u \in FindSlots}
    \cup UNION {{With(With(NoAllocations, NameA, u), NameB, v) :
                    v \in FindSlots \ {u}} : u \in FindSlots}

\* what the probes refuse: the TCP port of a slot, and one UDP port in the
\* middle of its range, for no slot, one or two
FindBusy ==
    {[tcp |-> {u.server_port : u \in B},
      udp |-> {u.webrtc_port_start + (WEBRTC_RANGE_SIZE \div 2) : u \in B}] :
        B \in {C \in SUBSET FindSlots : Cardinality(C) <= 2}}

\* the document and the probe answers are the arguments of the searches
InitFind ==
    /\ file = NoFile
    /\ containers = [n \in {} |-> 0]
    /\ thread_lock = [o \in Threads |-> NoThread]
    /\ file_lock = NoThread
    /\ same_process = FALSE
    /\ \E c \in FindStarts, a \in FindAllocations, b \in FindBusy :
          thr = [p \in Threads |->
                   IF p = "t1"
                   THEN [IdleThread EXCEPT
                           !.op = "find",
                           !.state = [next_server_port |-> c.server_port,
                                      next_debug_port  |-> c.debug_port,
                                      next_webrtc_port |-> c.webrtc_port_start,
                                      allocations      |-> a],
                           !.busy = b]
                   ELSE IdleThread]
    /\ calls = 0
    /\ default_state = DEFAULT_STATE
    /\ launcher = [p \in Threads |-> NoLauncher]
    /\ screenshot_loops = {}

\* server_port = _find_free_tcp_port(state["next_server_port"], used_server)
find_tcp(p) ==
    /\ thr[p].op = "find" /\ thr[p].pc = "idle"
    /\ LET st == thr[p].state
           used_server == {st.allocations[n].server_port :
                              n \in DOMAIN st.allocations}
       IN  Upd(p, [thr[p] EXCEPT
                     !.pc = "find_webrtc",
                     !.ports.server_port =
                        find_free_tcp_port(st.next_server_port, used_server,
                                           thr[p].busy.tcp)])
    /\ UNCHANGED <<file, containers, thread_lock, file_lock, same_process, calls,
                   default_state,
                   launcher, screenshot_loops>>

\* webrtc_port_start =
\*     _find_free_webrtc_range(state["next_webrtc_port"], used_webrtc)
find_webrtc(p) ==
    /\ thr[p].op = "find" /\ thr[p].pc = "find_webrtc"
    /\ LET st == thr[p].state
           used_webrtc == {st.allocations[n].webrtc_port_start :
                              n \in DOMAIN st.allocations}
       IN  Upd(p, [thr[p] EXCEPT
                     !.pc = "done",
                     !.ports.webrtc_port_start =
                        find_free_webrtc_range(st.next_webrtc_port, used_webrtc,
                                               WEBRTC_RANGE_SIZE,
                                               thr[p].busy.udp)])
    /\ UNCHANGED <<file, containers, thread_lock, file_lock, same_process, calls,
                   default_state,
                   launcher, screenshot_loops>>

NextFind == \E p \in Threads : find_tcp(p) \/ find_webrtc(p)

SpecFind == InitFind /\ [][NextFind]_vars

(* ------------------------------------------------------------------ *)
(* Properties                                                          *)
(* ------------------------------------------------------------------ *)
Allocations == read_state(file).allocations
Cursors(state) ==
    <<state.next_server_port, state.next_debug_port, state.next_webrtc_port>>

\* C1: in every persisted state, under any interleaving of allocate and
\* release calls with any names, any runtime listing answers and any probe
\* answers, the server_port values of the allocation records are pairwise
\* distinct and so are the debug_port values.
C1_TcpPortsDistinct ==
    \A a, b \in DOMAIN Allocations :
        a # b => /\ Allocations[a].server_port # Allocations[b].server_port
                 /\ Allocations[a].debug_port # Allocations[b].debug_port

\* C1 happens: two records are persisted, one of them found while the probe
\* refused the first candidates
C1_Witness ==
    /\ Cardinality(DOMAIN Allocations) >= 2
    /\ \E p \in Threads :
         /\ thr[p].pc = "done" /\ thr[p].op = "allocate" /\ thr[p].out = "ok"
         /\ thr[p].busy.tcp # {}
         /\ thr[p].docker_name \in DOMAIN Allocations
         /\ Allocations[thr[p].docker_name] = thr[p].ports

\* C2: in every persisted state the intervals
\* [webrtc_port_start, webrtc_port_start + 101) of two distinct allocation
\* records are disjoint.
C2_WebrtcRangesDisjoint ==
    \A a, b \in DOMAIN Allocations :
        a # b =>
          LET sa == Allocations[a].webrtc_port_start
              sb == Allocations[b].webrtc_port_start
          IN  (sa .. (sa + 101 - 1)) \cap (sb .. (sb + 101 - 1)) = {}

\* C2 happens: two records are persisted, one of them found while the probe
\* refused a port of the first range
C2_Witness ==
    /\ Cardinality(DOMAIN Allocations) >= 2
    /\ \E p \in Threads :
         /\ thr[p].pc = "done" /\ thr[p].op = "allocate" /\ thr[p].out = "ok"
         /\ thr[p].busy.udp # {}
         /\ thr[p].docker_name \in DOMAIN Allocations
         /\ Allocations[thr[p].docker_name] = thr[p].ports

\* the documents of the scenarios: the first record alone, both records
FirstTriple == Triple(DefaultServerPort, DefaultDebugPort, DefaultWebrtcPort)
SecondTriple ==
    Triple(DefaultServerPort + 1, DefaultDebugPort + 1,
           DefaultWebrtcPort + WEBRTC_RANGE_SIZE)
StateAfterFirst(n) ==
    [next_server_port |-> DefaultServerPort + 1,
     next_debug_port  |-> DefaultDebugPort + 1,
     next_webrtc_port |-> DefaultWebrtcPort + WEBRTC_RANGE_SIZE,
     allocations      |-> With(NoAllocations, n, FirstTriple)]
StateAfterBoth(n, m) ==
    [next_server_port |-> DefaultServerPort + 2,
     next_debug_port  |-> DefaultDebugPort + 2,
     next_webrtc_port |-> DefaultWebrtcPort + 2 * WEBRTC_RANGE_SIZE,
     allocations      |-> With(With(NoAllocations, n, FirstTriple), m, SecondTriple)]

\* C3: when the two threads have called allocate of two different valid
\* names against the missing state file, with every probed port free, and
\* both calls have returned (the only two calls made, in whatever way their
\* steps interleaved), one holds (8081, 9224, 52000) and the other
\* (8082, 9225, 52101), the persisted state holds exactly these two records
\* and the cursors are (8083, 9226, 52202).
C3_ConcurrentAllocate ==
    (/\ calls = 2
     /\ \A p \in Threads :
          /\ thr[p].pc = "done" /\ thr[p].op = "allocate" /\ thr[p].out = "ok"
          /\ thr[p].busy = NoBusy
     /\ {thr[p].docker_name : p \in Threads} = {NameA, NameB})
    => /\ {thr[p].ports : p \in Threads} = {FirstTriple, SecondTriple}
       /\ file.exists
       /\ \E p \in Threads :
            /\ thr[p].ports = FirstTriple
            /\ \E q \in Threads \ {p} :
                 file.doc = StateAfterBoth(thr[p].docker_name, thr[q].docker_name)

\* C5: from the missing state file and with every probed port free,
\* allocate of a first name returns (8081, 9224, 52000) and persists that
\* record with cursors (8082, 9225, 52101); an allocate of a second name
\* that reads this state returns (8082, 9225, 52101) and persists both
\* records with cursors (8083, 9226, 52202).
C5_SequentialAllocate ==
    [][\A p \in Threads :
         (/\ thr[p].pc = "allocate_find" /\ thr[p].op = "allocate"
          /\ thr'[p].pc = "done" /\ thr'[p].busy = NoBusy)
         => /\ (/\ thr[p].docker_name = NameA
                 /\ ~file.exists)
                => /\ thr'[p].ports = FirstTriple
                   /\ file' = FileOf(StateAfterFirst(NameA))
            /\ (/\ thr[p].docker_name = NameB
                 /\ thr[p].state = StateAfterFirst(NameA))
                => /\ thr'[p].ports = SecondTriple
                   /\ file' = FileOf(StateAfterBoth(NameA, NameB))]_vars

\* C6: in every persisted state, when the allocations mapping is empty the
\* three cursors equal their defaults (8081, 9224, 52000); so they do after
\* the release of the last remaining allocation.
C6_EmptyMeansDefaultCursors ==
    (file.exists /\ DOMAIN file.doc.allocations = {})
    => Cursors(file.doc) = <<8081, 9224, 52000>>

\* C6 happens: one allocate and one release of the same name were the only
\* calls, both returned, and the state persisted last holds no record: the
\* release removed the last allocation
C6_Witness ==
    /\ calls = 2
    /\ file.exists /\ DOMAIN file.doc.allocations = {}
    /\ \E p \in Threads : \E q \in Threads \ {p} :
         /\ thr[p].pc = "done" /\ thr[p].op = "allocate" /\ thr[p].out = "ok"
         /\ thr[q].pc = "done" /\ thr[q].op = "release" /\ thr[q].out = "ok"
         /\ thr[p].docker_name = thr[q].docker_name

\* C7: every release that writes leaves no record of its name, and when
\* there was none it leaves allocations and cursors exactly as they were: a
\* second release of the name directly after a first, and a release of a
\* name without a record, change nothing.
C7_ReleaseIdempotent ==
    [][\A p \in Threads :
         (thr[p].pc = "release_write" /\ thr'[p].pc # "release_write")
         => /\ thr[p].docker_name \notin DOMAIN read_state(file').allocations
            /\ thr[p].docker_name \notin DOMAIN read_state(file).allocations
               => read_state(file') = read_state(file)]_vars

\* C7 happens: after an allocate of another name, whose record is still
\* persisted, both threads released the same name one after the other
C7_Witness ==
    /\ calls = 3
    /\ DOMAIN Allocations = {NameB}
    /\ \A p \in Threads :
         /\ thr[p].pc = "done" /\ thr[p].op = "release" /\ thr[p].out = "ok"
         /\ thr[p].docker_name = NameA

\* C8: a name that is not a string of the pattern
\* [a-zA-Z0-9][a-zA-Z0-9_.-]* makes allocate and release raise the
\* validation error with no lock taken, no runtime query and the state file
\* untouched; so every key of the persisted allocations is a string of the
\* pattern.
C8_InvalidNameRejected ==
    /\ \A n \in DOMAIN Allocations : FullMatch(n)
    /\ \A p \in Threads :
         (thr[p].op \in {"allocate", "release"} /\ ~FullMatch(thr[p].docker_name))
         => /\ thr[p].pc \in {"allocate_enter", "release_enter", "done"}
            /\ thr[p].pc = "done" => thr[p].out = "ValueError"
            /\ ~thr[p].rt
            /\ file_lock # p /\ thread_lock[OsOf(p)] # p

\* the configs of two launches differ in the server port and in the debug
\* port, and their WebRTC ranges share no port
ConfigsDisjoint(c, d) ==
    /\ c.server_port # d.server_port
    /\ c.debug_port # d.debug_port
    /\ (c.webrtc_port_start .. webrtc_port_end(c))
         \cap (d.webrtc_port_start .. webrtc_port_end(d)) = {}

\* both launches have returned successfully, under different names, and
\* neither has been cleaned up
BothLaunched(p, q) ==
    /\ p # q
    /\ thr[p].pc = "launched" /\ thr[q].pc = "launched"
    /\ thr[p].docker_name # thr[q].docker_name

\* the container the launch of p started is still running
StillRunning(p) ==
    /\ thr[p].docker_name \in DOMAIN containers
    /\ containers[thr[p].docker_name].owner = p

C9_ValidationBeforeRuntime ==
    \A p \in Threads :
        (/\ thr[p].op = "launch"
         /\ ~FullMatch(thr[p].docker_name)
         /\ thr[p].pc = "done"
         /\ thr[p].out = "ValueError")
        => ~thr[p].rt

\* C10: when a launch that obtained ports and started its container fails
\* at the readiness probe, then at the moment it raises, the state holds
\* no record of its name and the container it started is not running.
C10_ReadinessRollback ==
    [][\A p \in Threads :
         (/\ thr[p].op = "launch" /\ thr[p].stage = "ready"
          /\ thr[p].pc # "done" /\ thr'[p].pc = "done")
         => /\ thr[p].docker_name \notin DOMAIN read_state(file').allocations
            /\ ~(/\ thr[p].docker_name \in DOMAIN containers'
                  /\ containers'[thr[p].docker_name].owner = p)]_vars

\* the steps of launch that come after _allocate_ports has returned
AfterAllocate == {"profile", "run", "timeout", "ready", "screenshot"}

\* C11: when a launch fails at a step after its allocation returned (profile
\* hygiene, container run, run timeout, retry exhaustion, readiness,
\* screenshot spawn), then at the moment the error reaches the caller the
\* state holds no allocation record of the launch's name.
C11_FailedLaunchReleased ==
    [][\A p \in Threads :
         (/\ thr[p].op = "launch"
          /\ thr[p].pc # "done" /\ thr'[p].pc = "done"
          /\ thr'[p].stage \in AfterAllocate)
         => thr[p].docker_name \notin DOMAIN read_state(file').allocations]_vars

\* C12: when the first run attempt of a launch failed with "port is already
\* allocated", the release that follows leaves no record of the name, and
\* the allocation after it persists a record with which the second attempt
\* runs: a port triple that differs from the first attempt's triple.
C12_RetryUsesFreshPorts ==
    [][\A p \in Threads :
         /\ (/\ thr[p].pc = "release_write" /\ thr[p].ret = "launch_realloc"
              /\ thr'[p].pc = "allocate_enter")
            => thr[p].docker_name \notin DOMAIN read_state(file').allocations
         /\ (/\ thr[p].pc = "allocate_find" /\ thr[p].ret = "launch_retry"
              /\ thr[p].attempt = 0
              /\ thr'[p].pc = "launch_run")
            => /\ thr'[p].attempt = 1
               /\ read_state(file').allocations[thr[p].docker_name] = thr'[p].config
               /\ thr'[p].config # thr[p].config]_vars

\* C13: an allocate that got a listing from the runtime and returns leaves
\* no record of another name that the listing did not show; from the state
\* {a: (8081, 9224, 52000)} with no container listed and every probed port
\* free, allocate of b returns (8081, 9224, 52000) and the state holds b's
\* record alone.
C13_DeadAllocationsReaped ==
    [][\A p \in Threads :
         (/\ thr[p].pc = "allocate_find" /\ thr[p].op = "allocate"
          /\ thr'[p].pc = "done" /\ thr'[p].out = "ok"
          /\ thr[p].running.reached)
         => /\ \A n \in DOMAIN thr[p].state.allocations :
                 (n \notin thr[p].running.names /\ n # thr[p].docker_name)
                 => n \notin DOMAIN read_state(file').allocations
            /\ (/\ thr[p].state = StateAfterFirst(NameA)
                 /\ thr[p].docker_name = NameB
                 /\ thr[p].running.names = {}
                 /\ thr'[p].busy = NoBusy)
                => /\ thr'[p].ports = FirstTriple
                   /\ file' = FileOf(StateAfterFirst(NameB))]_vars

\* C13 happens: a was allocated, then b; b holds the ports a was given and
\* the state holds b's record alone
C13_Witness ==
    /\ calls = 2
    /\ file = FileOf(StateAfterFirst(NameB))
    /\ \E p \in Threads : \E q \in Threads \ {p} :
         /\ thr[p].pc = "done" /\ thr[p].op = "allocate" /\ thr[p].out = "ok"
         /\ thr[p].docker_name = NameA /\ thr[p].ports = FirstTriple
         /\ thr[q].pc = "done" /\ thr[q].op = "allocate" /\ thr[q].out = "ok"
         /\ thr[q].docker_name = NameB /\ thr[q].ports = FirstTriple
         /\ thr[q].busy = NoBusy

\* C14: an allocate during which the runtime could not be reached (the CLI
\* missing or timing out, or the listing failing because the daemon is
\* down) and that returns leaves every record of another name, that was in
\* the state it read, in the state it wrote.
C14_UnreachableSkipsReaping ==
    [][\A p \in Threads :
         (/\ thr[p].pc = "allocate_find"
          /\ thr'[p].pc # "allocate_find"
          /\ ~thr[p].running.reached)
         => \A n \in (DOMAIN thr[p].state.allocations) \ {thr[p].docker_name} :
               /\ n \in DOMAIN read_state(file').allocations
               /\ read_state(file').allocations[n] = thr[p].state.allocations[n]]_vars

\* the state file at the configured path, without the temporary file
MainFile(f) == [exists |-> f.exists, doc |-> f.doc, part |-> f.part]

\* C15: with the process killed at any step of a state mutation, every step
\* leaves the state file either as it was or holding the whole new document
\* of the writer; it never holds a part of a document, so no reader holding
\* the lock reads one.
C15_WriteAtomic ==
    [][/\ file'.part = "whole"
       /\ \/ MainFile(file') = MainFile(file)
          \/ \E p \in Threads :
               /\ thr[p].pc = "write" /\ file_lock = p
               /\ MainFile(file') =
                    [exists |-> TRUE, doc |-> thr[p].state, part |-> "whole"]]_vars

\* C15 happens: a process was killed while the document was partly written,
\* an earlier document is in the state file, and another call reads it
\* under the lock
C15_Witness ==
    \E p \in Threads : \E q \in Threads \ {p} :
        /\ thr[p].pc = "done" /\ thr[p].out = "killed"
        /\ file.tmp.exists /\ file.tmp.part = "partial"
        /\ file.exists /\ DOMAIN file.doc.allocations # {}
        /\ file.tmp.doc # file.doc
        /\ thr[q].pc \in {"allocate_find", "release_write"}
        /\ file_lock = q
        /\ thr[q].state = file.doc

\* the threads inside an allocate or release critical section (state read,
\* not yet written)
InCriticalSection == {p \in Threads : thr[p].pc \in {"allocate_find", "release_write"}}

\* C16: the threads being in one process or in two, at most one allocate or
\* release critical section is in progress at any time, and the section
\* that ends was computed from the state file as it is at that moment: no
\* write of another call fell between its read and its write, so the
\* writes are the operations run one after the other in the order of their
\* critical sections.
C16_CriticalSectionsSerial ==
    [][/\ Cardinality(InCriticalSection) <= 1
       /\ \A p \in Threads :
            (p \in InCriticalSection /\ thr'[p].pc # thr[p].pc)
            => thr[p].state = read_state(file)]_vars

\* C16 happens: one call is inside its critical section on a state that
\* holds a record, while the call of the other thread, for another valid
\* name, waits to enter
C16_Witness ==
    \E p \in Threads : \E q \in Threads \ {p} :
        /\ p \in InCriticalSection
        /\ DOMAIN thr[p].state.allocations # {}
        /\ thr[q].pc \in {"allocate_enter", "release_enter"}
        /\ validate_docker_name(thr[q].docker_name)
        /\ thr[q].docker_name # thr[p].docker_name

\* C17: when a cleanup whose container listing succeeded returns, the state
\* holds no allocation record of the config's container name, whether the
\* listing showed the container or not.
C17_CleanupReleases ==
    [][\A p \in Threads :
         (/\ thr[p].op = "cleanup"
          /\ thr[p].pc # "done" /\ thr'[p].pc = "done"
          /\ thr'[p].stage # "stop")
         => thr[p].docker_name \notin DOMAIN read_state(file').allocations]_vars

\* C18: a cleanup that returns has terminated the process handle it was
\* given, also when an earlier teardown step failed, such as the container
\* stop failing on its listing command.
C18_HandleTerminated ==
    \A p \in Threads :
        (thr[p].op = "cleanup" /\ thr[p].pc = "done")
        => thr[p].handle = "terminated"

\* C19: cleanup never raises: whatever step failed, it returns normally.
C19_CleanupNeverRaises ==
    \A p \in Threads :
        (thr[p].op = "cleanup" /\ thr[p].pc = "done") => thr[p].out = "ok"

\* C19 happens: a cleanup has returned after its container stop failed on
\* the listing command
C19_Witness ==
    \E p \in Threads :
        /\ thr[p].op = "cleanup" /\ thr[p].pc = "done"
        /\ thr[p].stage = "stop"

\* C20: two launches of the same container name never both return while
\* their handle and websocket URL refer to the same running container and
\* the same port triple.
C20_SameNameLaunchesSerialized ==
    \A p, q \in Threads :
        (/\ p # q
         /\ thr[p].pc = "launched" /\ thr[q].pc = "launched"
         /\ thr[p].docker_name = thr[q].docker_name
         /\ thr[p].docker_name \in DOMAIN containers
         /\ containers[thr[p].docker_name].owner = thr[p].ws
         /\ thr[p].ws = thr[q].ws)
        => thr[p].config # thr[q].config

\* the surviving records of an allocate: after the purge and without the
\* record of the name itself
Surviving(docker_name, state0, running) ==
    Without(purge_dead_allocations(state0, running).allocations, docker_name)

\* some slot near the defaults is free: a server port and a debug port the
\* probe accepts and no surviving record holds, and a WebRTC range below
\* the top that the probe accepts and that overlaps no surviving range
SomeSlotFree(docker_name, state0, running, busy) ==
    LET a == Surviving(docker_name, state0, running)
    IN  /\ \E q \in DefaultServerPort..(DefaultServerPort + 4) :
              /\ is_tcp_port_free(q, busy.tcp)
              /\ \A n \in DOMAIN a : a[n].server_port # q
        /\ \E q \in DefaultDebugPort..(DefaultDebugPort + 4) :
              /\ is_tcp_port_free(q, busy.tcp)
              /\ \A n \in DOMAIN a : a[n].debug_port # q
        /\ \E k \in 0..4 :
              LET w == DefaultWebrtcPort + k * WEBRTC_RANGE_SIZE
              IN  /\ is_udp_range_free(w, WEBRTC_RANGE_SIZE, busy.udp)
                  /\ \A n \in DOMAIN a :
                        ~RangesOverlap(w, a[n].webrtc_port_start,
                                       WEBRTC_RANGE_SIZE)

\* C21: allocate raises the exhaustion error only when no slot is free: an
\* allocate whose probes and surviving records leave a free server port,
\* debug port and WebRTC range does not fail with it, however far the
\* epoch has moved the cursors.
C21_ExhaustionOnlyWhenFull ==
    [][\A p \in Threads :
         (/\ thr[p].op = "allocate" /\ thr[p].pc = "allocate_find"
          /\ thr'[p].pc = "done" /\ thr'[p].out = "RuntimeError")
         => ~SomeSlotFree(thr[p].docker_name, thr[p].state, thr[p].running,
                          thr'[p].busy)]_vars

KnownKeys == DOMAIN DEFAULT_STATE

\* C22: an allocate or release that rewrites the state file keeps every
\* unknown top-level key of the document it read, with its value.
C22_UnknownKeysPreserved ==
    [][\A p \in Threads :
         (/\ thr[p].pc \in {"allocate_find", "release_write"}
          /\ thr'[p].pc # thr[p].pc
          /\ file' # file
          /\ file.exists /\ file.part = "whole")
         => \A k \in (DOMAIN file.doc) \ KnownKeys :
               /\ k \in DOMAIN file'.doc
               /\ file'.doc[k] = file.doc[k]]_vars

\* C22 happens: the file that had an unknown key has been rewritten by an
\* allocate of a new name and by a release of the old one
C22_Witness ==
    /\ file.exists /\ file.part = "whole"
    /\ "schema_version" \in DOMAIN file.doc
    /\ DOMAIN file.doc.allocations = {NameA}

\* C23: no allocate or release raises because of what the state file
\* holds.
C23_ReadNeverFails ==
    \A p \in Threads :
        thr[p].pc = "done" => thr[p].out \notin {"AttributeError", "KeyError"}

\* the step in which p's _allocate_ports wrote the state and returned
AllocateReturns(p) ==
    /\ thr[p].pc = "allocate_find" /\ thr'[p].pc # "allocate_find"
    /\ thr'[p].ports # NoPorts

\* the step in which p's _release_ports wrote the state and returned
ReleaseReturns(p) ==
    thr[p].pc = "release_write" /\ thr'[p].pc # "release_write"

\* the names whose records the reaping of an allocate keeps
Kept(state0, running) ==
    {m \in DOMAIN state0.allocations : ~running.known \/ m \in running.names}

\* C24: when allocate(name) returns a triple, the persisted state maps name
\* to that triple, its cursors are (server+1, debug+1, webrtc_start+101)
\* of the triple, and the records of the other names are exactly those that
\* survived the reaping, unchanged.
C24_AllocatePersists ==
    [][\A p \in Threads :
         AllocateReturns(p) =>
            LET n == thr[p].docker_name
                old == thr[p].state
                new == read_state(file')
                ret == thr'[p].ports
            IN  /\ file'.exists /\ file'.part = "whole"
                /\ n \in DOMAIN new.allocations
                /\ new.allocations[n] = ret
                /\ new.next_server_port = ret.server_port + 1
                /\ new.next_debug_port = ret.debug_port + 1
                /\ new.next_webrtc_port = ret.webrtc_port_start + WEBRTC_RANGE_SIZE
                /\ (DOMAIN new.allocations) \ {n} = Kept(old, thr[p].running) \ {n}
                /\ \A m \in (DOMAIN new.allocations) \ {n} :
                      new.allocations[m] = old.allocations[m]]_vars

\* C24 happens: an allocate has returned its triple while the record of
\* another name survived
C24_Witness ==
    \E p \in Threads :
        /\ thr[p].op = "allocate" /\ thr[p].pc = "done" /\ thr[p].out = "ok"
        /\ thr[p].docker_name \in DOMAIN Allocations
        /\ Allocations[thr[p].docker_name] = thr[p].ports
        /\ Cardinality(DOMAIN Allocations) = 2

\* C25: a release that leaves another allocation behind removes the record
\* of its name and nothing else: the other records and the cursors are as
\* they were read, whether or not the other containers are running.
C25_ReleaseRemovesOnlyName ==
    [][\A p \in Threads :
         (/\ ReleaseReturns(p)
          /\ (DOMAIN thr[p].state.allocations) \ {thr[p].docker_name} # {})
         => LET old == thr[p].state
                new == read_state(file')
            IN  /\ file'.exists /\ file'.part = "whole"
                /\ new.allocations = Without(old.allocations, thr[p].docker_name)
                /\ Cursors(new) = Cursors(old)]_vars

\* C25 happens: a release has removed the record of its name, a second
\* allocation of the epoch, and left a record whose container is not
\* running
C25_Witness ==
    \E p \in Threads :
        /\ thr[p].op = "release" /\ thr[p].pc = "done" /\ thr[p].out = "ok"
        /\ calls = MaxCalls
        /\ thr[p].docker_name \notin DOMAIN Allocations
        /\ Allocations # NoAllocations
        /\ read_state(file).next_server_port > DefaultServerPort + 1
        /\ \A m \in DOMAIN Allocations : m \notin DOMAIN containers

\* C28 as stated: between two persisted states that both hold allocations
\* no cursor decreases, and an allocate that returns leaves each cursor
\* above its value before the call.
C28_CursorsMonotone ==
    [][\A p \in Threads :
         (/\ AllocateReturns(p) \/ ReleaseReturns(p)
          /\ DOMAIN thr[p].state.allocations # {}
          /\ DOMAIN read_state(file').allocations # {})
         => LET old == thr[p].state
                new == read_state(file')
            IN  /\ new.next_server_port >= old.next_server_port
                /\ new.next_debug_port >= old.next_debug_port
                /\ new.next_webrtc_port >= old.next_webrtc_port
                /\ AllocateReturns(p) =>
                      /\ new.next_server_port > old.next_server_port
                      /\ new.next_debug_port > old.next_debug_port
                      /\ new.next_webrtc_port > old.next_webrtc_port]_vars

\* C28 amended: the same, for an epoch that the reaping inside the
\* allocate does not end: the allocate's purge keeps at least one record,
\* and the release leaves at least one.
C28_CursorsMonotoneInEpoch ==
    [][\A p \in Threads :
         LET old == thr[p].state
             new == read_state(file')
         IN  /\ (AllocateReturns(p) /\ Kept(old, thr[p].running) # {}) =>
                   /\ new.next_server_port > old.next_server_port
                   /\ new.next_debug_port > old.next_debug_port
                   /\ new.next_webrtc_port > old.next_webrtc_port
             /\ (ReleaseReturns(p) /\ DOMAIN new.allocations # {}) =>
                   /\ new.next_server_port >= old.next_server_port
                   /\ new.next_debug_port >= old.next_debug_port
                   /\ new.next_webrtc_port >= old.next_webrtc_port]_vars

\* C28 happens: a third allocation of one epoch has returned
C28_Witness ==
    \E p \in Threads :
        /\ thr[p].op = "allocate" /\ thr[p].pc = "done" /\ thr[p].out = "ok"
        /\ calls = MaxCalls
        /\ Cardinality(DOMAIN Allocations) = 2
        /\ read_state(file).next_server_port > DefaultServerPort + 2

\* C26: one launch runs the container command at most max_retries times:
\* the run step is entered with fewer than max_retries failed attempts
\* behind it, every entry but the first follows a failed attempt that was
\* counted, and a launch that is on its way to raise (another non-zero
\* exit, a timeout, the attempts used up) never runs the command again.
C26_BoundedRetries ==
    [][\A p \in Threads :
         thr[p].op = "launch" =>
            /\ thr[p].pc = "launch_run" => thr[p].attempt < max_retries
            /\ (thr[p].pc # "launch_run" /\ thr'[p].pc = "launch_run") =>
                  IF thr[p].pc = "launch_config"
                  THEN thr'[p].attempt = 0
                  ELSE thr'[p].attempt = thr[p].attempt + 1
            /\ (/\ thr[p].pc = "launch_run" /\ thr'[p].pc = "launch_run"
                /\ thr'[p] # thr[p]) =>
                  thr'[p].attempt = thr[p].attempt + 1
            /\ (thr[p].ret = "launch_raise" /\ thr[p].pc # "done") =>
                  /\ thr'[p].pc \in {"release_enter", "release_write", "done"}
                  /\ thr'[p].pc = "done" => thr'[p].out # "ok"]_vars

\* C26 happens: the third attempt of a launch has failed and the launch is
\* about to raise
C26_Witness ==
    \E p \in Threads :
        /\ thr[p].op = "launch" /\ thr[p].ret = "launch_raise"
        /\ thr[p].stage = "run"
        /\ thr[p].attempt = max_retries

\* p has asked for the locks and does not hold both yet
WaitsForLocks(p) ==
    \/ /\ thr[p].pc \in {"allocate_enter", "release_enter"}
       /\ validate_docker_name(thr[p].docker_name)
    \/ thr[p].pc = "flock"

HoldsLocks(p) == thread_lock[OsOf(p)] = p /\ file_lock = p

\* C27: the flock is only held under the RLock of the holder's process, a
\* thread outside a call holds no lock (every exit of the critical
\* section, the exceptional ones included, has released both), and every
\* call that asks for the locks gets both.
C27_LocksPairedAndLive ==
    /\ [](\A p \in Threads :
            /\ file_lock = p => thread_lock[OsOf(p)] = p
            /\ thr[p].pc \in {"idle", "done"} =>
                  /\ file_lock # p
                  /\ thread_lock[OsOf(p)] # p)
    /\ \A p \in Threads : WaitsForLocks(p) ~> HoldsLocks(p)

\* C27 happens: one call left the critical section with the exhaustion
\* error or a write failure, and the other thread, in the same process,
\* holds both locks after it
C27_Witness ==
    \E p, q \in Threads :
        /\ p # q /\ same_process
        /\ thr[p].pc = "done" /\ thr[p].out \in {"RuntimeError", "OSError"}
        /\ thr[p].rt
        /\ HoldsLocks(q)

\* the least element of a non-empty set of numbers
Least(S) == CHOOSE q \in S : \A r \in S : q <= r

\* the ports from start up to the top that are not excluded and that the
\* probe reports free; the least of them, if any, is no further from start
\* than the number of excluded and refused ports
FreeTcpFrom(start, used, busy) ==
    {q \in start..(start + Cardinality(used \cup busy)) :
        q <= MaxPortNo /\ q \notin used /\ q \notin busy}

\* C29: find_free_tcp(start, excluded) returns the smallest port from start
\* up to 65535 that is not excluded and probes free, and fails with the
\* exhaustion error, and no other, when there is none; this for every
\* start, 65536 included.
C29_FindFreeTcp ==
    \A p \in Threads :
        (thr[p].op = "find" /\ thr[p].pc \in {"find_webrtc", "done"}) =>
            LET st == thr[p].state
                used == {st.allocations[n].server_port :
                            n \in DOMAIN st.allocations}
                free == FreeTcpFrom(st.next_server_port, used, thr[p].busy.tcp)
            IN  thr[p].ports.server_port =
                    IF free = {} THEN PortError ELSE Least(free)

\* the candidates start + k * size whose range lies at or below the top,
\* overlaps no excluded range and probes free
FreeRangesFrom(start, used_starts, size, busy) ==
    {c \in {start + k * size : k \in 0..(EpochLength + 1)} :
        /\ c + size - 1 <= MaxPortNo
        /\ \A u \in used_starts : ~(c < u + size /\ u < c + size)
        /\ \A q \in busy : q < c \/ q >= c + size}

C38_ExhaustionLeavesState ==
    [][\A p \in Threads :
          thr[p].pc = "allocate_find" =>
             /\ ~(thr'[p].pc = "done" /\ thr'[p].out = "ok") => file' = file
             /\ (thr'[p].pc = "done" /\ thr'[p].out = "RuntimeError") =>
                   /\ thread_lock'[OsOf(p)] = NoThread
                   /\ file_lock' = NoThread
                   /\ \A q \in Threads : LocksFree(q)']_vars

\* an allocate failed with the exhaustion error after it had changed its
\* dict in memory, the file still holds what it read, and the other caller
\* has taken the locks since
C38_Witness ==
    \E p \in Threads, q \in Threads :
        /\ p # q
        /\ thr[p].pc = "done" /\ thr[p].op = "allocate"
        /\ thr[p].out = "RuntimeError"
        /\ thr[p].docker_name \in DOMAIN LateEpochDoc.allocations
        /\ file = FileOf(LateEpochDoc)
        /\ thr[q].pc \in {"allocate_find", "release_write"}
        /\ file_lock = q

(* ------------------------------------------------------------------ *)
(* C35: the two TCP roles never share a port                           *)
(* ------------------------------------------------------------------ *)
\* C35: in every persisted state no server_port value of a record equals
\* the debug_port value of a record (the same or another), and in every
\* triple an allocate returned the server port differs from the debug port,
\* whatever the cursors and the probe answers.
C35_TcpRolesDisjoint ==
    /\ \A a, b \in DOMAIN Allocations :
          Allocations[a].server_port # Allocations[b].debug_port
    /\ \A p \in Threads :
          (thr[p].op = "allocate" /\ thr[p].pc = "done" /\ thr[p].out = "ok")
             => thr[p].ports.server_port # thr[p].ports.debug_port

HoldsPorts(p) ==
    /\ thr[p].op = "launch"
    /\ thr[p].pc \in {"launch_run", "launch_ready", "launched"}

\* C36: whenever a launch holds ports for its name, the state has a record
\* of that name equal to the triple in its config, under every interleaving
\* with the allocates of other launches; an allocate of another launch
\* does not remove the record of a launch whose container is not listed yet.
C36_HeldPortsRecorded ==
    \A p \in Threads :
        HoldsPorts(p) =>
            /\ thr[p].docker_name \in DOMAIN Allocations
            /\ Allocations[thr[p].docker_name] = thr[p].config

(* ------------------------------------------------------------------ *)
(* C31: the exit hook of a launch                                      *)
(* ------------------------------------------------------------------ *)
\* the _atexit_cleanup hooks p has registered and not yet run
CleanupHooks(l) ==
    {i \in 1..Len(l.atexit) : l.atexit[i].fn = "_atexit_cleanup"}

\* C31: a process registers an _atexit_cleanup hook only in the step in
\* which its launch returns, after the readiness probe of that launch
\* answered, and every launch that returns has registered the hook of its
\* container name as the last one; when the hook runs at process exit, the
\* container of its name is not running afterwards and the hook's
\* _release_ports leaves no record of that name in the state.
C31_ExitHook ==
    [][\A p \in Threads :
          /\ Cardinality(CleanupHooks(launcher'[p]))
                > Cardinality(CleanupHooks(launcher[p]))
             => /\ thr[p].pc = "launch_spawn" /\ thr'[p].pc = "launched"
                /\ thr[p].ws # "none"
          /\ (thr[p].pc # "launched" /\ thr'[p].pc = "launched")
             => /\ launcher'[p].atexit # <<>>
                /\ launcher'[p].atexit[Len(launcher'[p].atexit)]
                      = AtexitCleanupHook(thr[p].docker_name)
                /\ SubSeq(launcher'[p].atexit, 1, Len(launcher[p].atexit))
                      = launcher[p].atexit
          /\ (/\ thr[p].pc = "exit_hooks"
              /\ launcher[p].atexit # <<>>
              /\ launcher'[p] # launcher[p]
              /\ launcher[p].atexit[Len(launcher[p].atexit)].fn
                    = "_atexit_cleanup")
             => LET n == launcher[p].atexit[Len(launcher[p].atexit)].docker_name
                IN  /\ n \notin DOMAIN containers'
                    /\ thr'[p].pc = "release_enter"
                    /\ thr'[p].docker_name = n
          /\ (/\ thr[p].op = "exit"
              /\ thr[p].pc = "release_write" /\ thr'[p].pc # "release_write")
             => /\ thr[p].docker_name \notin DOMAIN read_state(file').allocations
                /\ thr'[p].pc = "exit_hooks"]_vars

\* a process is exiting: its hook has killed the container of its launch
\* and is about to remove the record of that name, which is in the state
C31_Witness ==
    \E p \in Threads :
        /\ thr[p].op = "exit" /\ thr[p].pc = "release_write"
        /\ thr[p].docker_name \in DOMAIN thr[p].state.allocations
        /\ thr[p].docker_name \notin DOMAIN containers

(* ------------------------------------------------------------------ *)
(* C37: an exit hook and a newer container of the same name            *)
(* ------------------------------------------------------------------ *)
\* q's launch has returned, the container it started is running under its
\* name and the state has a record of that name
OwnsRunning(q) ==
    /\ thr[q].op = "launch" /\ thr[q].pc = "launched"
    /\ thr[q].docker_name \in DOMAIN containers
    /\ containers[thr[q].docker_name].owner = q
    /\ thr[q].docker_name \in DOMAIN Allocations

\* C37: the exit hooks of a process remove only what its own launch
\* created: no step of an exiting process kills the container that a launch
\* of another process started under the same name after the first one was
\* gone, or removes the record of that newer container.
C37_HookRemovesOnlyOwn ==
    [][\A p \in Threads : \A q \in Threads \ {p} :
          (thr[p].op = "exit" /\ thr'[p] # thr[p] /\ OwnsRunning(q))
             => /\ thr[q].docker_name \in DOMAIN containers'
                /\ thr[q].docker_name \in DOMAIN read_state(file').allocations]_vars

(* ------------------------------------------------------------------ *)
(* C34: cleanup called twice                                           *)
(* ------------------------------------------------------------------ *)
\* C34: no step of a second cleanup(config, handle), called after the
\* first one returned, changes the state file or the set of running
\* containers, and the second call returns normally.
C34_CleanupIdempotent ==
    [][\A p \in Threads :
          (thr'[p].op = "cleanup" /\ thr'[p].again /\ thr'[p] # thr[p])
             => /\ file' = file
                /\ DOMAIN containers' = DOMAIN containers
                /\ thr'[p].pc = "done" => thr'[p].out = "ok"]_vars

(* ------------------------------------------------------------------ *)
(* C33: the graceful close comes before the container stop             *)
(* ------------------------------------------------------------------ *)
\* the commands of a graceful close are in the claimed order: the
\* terminate signal first, the kill signal only directly after a check
\* that found browser processes, which directly follows the 3 s wait
CloseOrdered(sig) ==
    /\ sig # <<>> => sig[1] = "killall -TERM"
    /\ \A i \in 1..Len(sig) :
          sig[i] = "kill -9" =>
             /\ i >= 4
             /\ sig[i - 1] = "ps alive" /\ sig[i - 2] = "sleep 3"
             /\ sig[i - 3] \in {"killall -TERM", "kill -TERM"}

\* C33: in every cleanup the graceful close is done before the container
\* stop begins: the step that runs it leaves the running containers as
\* they are, its commands are ordered terminate, 3 s wait, check, kill
\* (the kill only when the check found browser processes), it sends no
\* signal when the container is not running, and a cleanup removes a
\* container only in its stop step after that.
C33_GracefulCloseFirst ==
    [][\A p \in Threads :
          /\ (thr'[p].op = "cleanup"
                /\ thr[p].pc # "cleanup_stop" /\ thr'[p].pc = "cleanup_stop")
             => /\ containers' = containers
                /\ CloseOrdered(thr'[p].sig)
                /\ thr[p].docker_name \notin DOMAIN containers
                      => thr'[p].sig = <<>>
          /\ (thr[p].op = "cleanup" /\ thr'[p] # thr[p]
                /\ containers' # containers)
             => /\ thr[p].pc = "cleanup_stop"
                /\ CloseOrdered(thr[p].sig)]_vars

\* a cleanup has sent the terminate signal, waited, found the browser
\* alive and sent the kill signal; the container is still running and the
\* stop comes next
C33_Witness ==
    \E p \in Threads :
        /\ thr[p].op = "cleanup" /\ thr[p].pc = "cleanup_stop"
        /\ thr[p].sig # <<>>
        /\ thr[p].sig[Len(thr[p].sig)] = "kill -9"
        /\ thr[p].docker_name \in DOMAIN containers

(* ------------------------------------------------------------------ *)
(* C32: one screenshot loop per container name                         *)
(* ------------------------------------------------------------------ *)
\* C32: at any time at most one screenshot loop is alive for a container
\* name: a spawn for a name that has a live loop starts no second one.
C32_OneLoopPerName ==
    \A l1, l2 \in screenshot_loops :
        l1.docker_name = l2.docker_name => l1 = l2

====
